---- MODULE Spec2Model ----
(***************************************************************************)
(* The photo ingestion / sync pipeline of the portfolio site.              *)
(*                                                                         *)
(* Three generations of photos-sync.js are modelled as the three values of *)
(* `variant`:                                                              *)
(*   "fs1"  scripts/photos-sync.js   filesystem walk, album-prefixed keys  *)
(*   "fs2"  unnamed/part_002         filesystem walk, flat keys, --n cap   *)
(*   "lib"  unnamed/part_001         osxphotos album query, diff + prune   *)
(* A run is a sequence of steps of one process; the catalogue file and the *)
(* remote object store survive between runs.                               *)
(***************************************************************************)
EXTENDS Integers, Sequences, FiniteSets, TLC

\* ---- bounds of the model ------------------------------------------------
MaxRuns == 2
MaxSrc == 2
MaxLimit == 1
MaxEV == 1
MaxPhotos == 3

\* ---- program constants --------------------------------------------------
Infinity == 99
THUMB == 600
PREVIEW == 1800
THRESHOLD == 50

Variants == {"fs1", "fs2", "lib"}
Settings == {"endpoint", "region", "bucket", "accessKeyId", "secretAccessKey"}

\* A string is a tuple of characters; a timestamp string is a tuple of
\* ordinals <<day, time>> compared position by position, which is the order
\* of the zero-padded text it stands for ("unknown" sorts above every digit).
DASH == "-"
Includes(s, c) == \E k \in 1..Len(s) : s[k] = c

UuidA == <<"A", "-", "1">>
UuidB == <<"B", "-", "2">>
HexC == <<"c", "0">>
HexD == <<"d", "1">>
HexE == <<"e", "2">>

UNKNOWN == <<9>>
NoAlbum == <<>>

\* ---- pure helpers ---------------------------------------------------------
RECURSIVE LexLess(_, _)
LexLess(a, b) ==
  IF a = <<>> THEN b # <<>>
  ELSE IF b = <<>> THEN FALSE
  ELSE IF a[1] < b[1] THEN TRUE
  ELSE IF a[1] > b[1] THEN FALSE
  ELSE LexLess(Tail(a), Tail(b))

\* localeCompare orders by collation, not by code unit: digits keep their
\* order, but a lower-case letter (ordinal 8) sorts below an upper-case
\* letter (ordinal 7) although its code unit is the greater one
Collate(c) == IF c = 7 THEN 8 ELSE IF c = 8 THEN 7 ELSE c
CollationKey(str) == [k \in 1..Len(str) |-> Collate(str[k])]

\* b.date_taken.localeCompare(a.date_taken) > 0 : a must come after b
ComesAfter(a, b) == LexLess(CollationKey(a.date_taken), CollationKey(b.date_taken))

\* insert e behind every element that does not have to come after it (stable)
RECURSIVE InsertSorted(_, _)
InsertSorted(s, e) ==
  IF s = <<>> THEN <<e>>
  ELSE IF ComesAfter(s[1], e) THEN <<e>> \o s
  ELSE <<s[1]>> \o InsertSorted(Tail(s), e)

RECURSIVE SortCatalogue(_)
SortCatalogue(s) ==
  IF s = <<>> THEN <<>>
  ELSE InsertSorted(SortCatalogue(SubSeq(s, 1, Len(s) - 1)), s[Len(s)])

Range(s) == {s[k] : k \in 1..Len(s)}
IdsOf(s) == {s[k].id : k \in 1..Len(s)}

SeqsUpTo(S, n) == UNION {[1..k -> S] : k \in 0..n}

\* date.slice(0, 10) : the day part of a timestamp
Slice10(d) == IF d = <<>> THEN <<>> ELSE <<d[1]>>

Key(album, id, size, ext) == [album |-> album, id |-> id, size |-> size, ext |-> ext]
Url(base, key) == [base |-> base, key |-> key]

\* ---- the two kinds of source ----------------------------------------------
\* osxphotos query records: uuid, isphoto, date (ISO timestamp)
LibItems ==
  { [uuid |-> UuidA, isphoto |-> TRUE,  date |-> <<2, 1>>],
    [uuid |-> UuidB, isphoto |-> TRUE,  date |-> <<1, 1>>],
    [uuid |-> HexC,  isphoto |-> TRUE,  date |-> <<1, 2>>],
    [uuid |-> UuidB, isphoto |-> FALSE, date |-> <<1, 1>>] }

\* files under public/photos: the id is the hash of the bytes, and so is the
\* embedded DateTimeOriginal; two files may hold the same bytes. `folder` is
\* the first segment of the path relative to the root, which for a file that
\* lies in the root itself (inRoot) is the name of the file
FsFiles ==
  { [name |-> "c.jpg",  inRoot |-> FALSE, id |-> HexC,
     folder |-> [prefix |-> "iso",   day |-> <<2>>, text |-> <<2, 7>>]],
    [name |-> "c2.jpg", inRoot |-> TRUE,  id |-> HexC,
     folder |-> [prefix |-> "none",  day |-> <<>>,  text |-> <<8>>]],
    [name |-> "d.jpg",  inRoot |-> FALSE, id |-> HexD,
     folder |-> [prefix |-> "month", day |-> <<1>>, text |-> <<1, 7>>]],
    [name |-> "e.jpg",  inRoot |-> FALSE, id |-> HexE,
     folder |-> [prefix |-> "none",  day |-> <<>>,  text |-> <<7>>]] }

Dto(id) ==
  IF id = HexC THEN [kind |-> "valid", date |-> <<2, 1>>]
  ELSE IF id = HexD THEN [kind |-> "none", date |-> <<>>]
  ELSE [kind |-> "invalid", date |-> <<>>]

\* the folder-name date parser on a name already split by its two patterns
ParseFolderDate(folder) ==
  IF folder.prefix \in {"iso", "month"} THEN folder.day ELSE folder.text

Limits == (0..MaxLimit) \cup {Infinity}
IsFinite(n) == n # Infinity
Slice(s, n) == SubSeq(s, 1, IF n < Len(s) THEN n ELSE Len(s))


\* ---- the metadata helpers ---------------------------------------------------
\* A JavaScript value: undefined, null, a number n, a string of the words w,
\* or the text of a template literal `${pre}${n}${suf}`.
Val(t, pre, n, suf, w) == [t |-> t, pre |-> pre, n |-> n, suf |-> suf, w |-> w]
UNDEFINED == Val("undefined", "", 0, "", <<>>)
NULL == Val("null", "", 0, "", <<>>)
Num(n) == Val("number", "", n, "", <<>>)
Str(w) == Val("string", "", 0, "", w)
Text(pre, n, suf) == Val("text", pre, n, suf, <<>>)

\* val == null
IsNullish(v) == v.t \in {"undefined", "null"}
\* if (val)
Truthy(v) ==
  \/ v.t = "number" /\ v.n # 0
  \/ v.t = "string" /\ v.w # <<>>
  \/ v.t \in {"text", "function"}

\* Math.round(1 / val) for the values below 1
RoundedReciprocal(n) == IF n = 0 THEN Infinity ELSE IF n = -1 THEN -1 ELSE 0

formatShutter(val) ==
  IF IsNullish(val) THEN NULL
  ELSE IF val.n >= 1 THEN Text("", val.n, "s")
  ELSE Text("1/", RoundedReciprocal(val.n), "s")

\* mutant: a positive value gets no sign
formatEV_NoPlus(val) ==
  IF IsNullish(val) THEN NULL
  ELSE Text("", val.n, " EV")

formatEV(val) ==
  IF IsNullish(val) THEN NULL
  ELSE IF val.n = 0 THEN Text("", 0, " EV")
  ELSE Text(IF val.n > 0 THEN "+" ELSE "", val.n, " EV")

\* Math.round(mm * 10) / 10 leaves a whole number as it is
formatFocalLength(mm) ==
  IF IsNullish(mm) THEN NULL
  ELSE Text("", mm.n, "mm")

\* .replace(/apple apple/i, 'Apple')
RECURSIVE Dedup(_)
Dedup(w) ==
  IF Len(w) < 2 THEN w
  ELSE IF w[1] = "Apple" /\ w[2] = "Apple" THEN Tail(w)
  ELSE <<w[1]>> \o Dedup(Tail(w))

\* [make, model].filter(Boolean).join(' ').replace(...) || null
Camera(make, model) ==
  LET parts == SelectSeq(<<make, model>>, Truthy)
      words == IF Len(parts) = 0 THEN <<>>
               ELSE IF Len(parts) = 1 THEN parts[1].w
               ELSE parts[1].w \o parts[2].w
  IN IF words = <<>> THEN NULL ELSE Str(Dedup(words))

ExifKeys == {"camera", "lens", "focal_length", "focal_length_35mm", "aperture",
             "shutter_speed", "iso", "exposure_compensation"}

\* what each key would be given, and whether its `if` lets it in
Assembled(values, guards) ==
  [k \in {x \in DOMAIN values : guards[x]} |-> values[k]]

LibExifValues(info) ==
  [ camera |-> Camera(info.camera_make, info.camera_model),
    lens |-> info.lens_model,
    focal_length |-> formatFocalLength(info.focal_length),
    aperture |-> IF IsNullish(info.aperture) THEN NULL ELSE Text("f/", info.aperture.n, ""),
    shutter_speed |-> formatShutter(info.shutter_speed),
    iso |-> info.iso,
    exposure_compensation |-> formatEV(info.exposure_bias) ]

\* mutant: every key is assigned, extracted or not
buildExif_NullFilled(info) ==
  IF info.given
    THEN Assembled(LibExifValues(info), [k \in DOMAIN LibExifValues(info) |-> TRUE])
    ELSE <<>>

\* buildExif(info): {} for no exif_info, else the keys whose guard holds
buildExif(info) ==
  IF info.given
    THEN Assembled(LibExifValues(info),
           [ camera |-> Truthy(Camera(info.camera_make, info.camera_model)),
             lens |-> Truthy(info.lens_model),
             focal_length |-> ~IsNullish(info.focal_length),
             aperture |-> ~IsNullish(info.aperture),
             shutter_speed |-> ~IsNullish(info.shutter_speed),
             iso |-> ~IsNullish(info.iso),
             exposure_compensation |-> Truthy(formatEV(info.exposure_bias)) ])
    ELSE <<>>

\* exifr.parse(buf, {pick: [...], gps: false}): only the picked tags come back
Picked == {"Make", "Model", "LensModel", "FocalLength", "FocalLengthIn35mmFormat",
           "FNumber", "ExposureTime", "ISO", "ExposureCompensation"}
Pick(tags) == [k \in Picked |-> tags[k]]

\* the "Build EXIF object" section of the filesystem variants
FsExif(tags) ==
  LET raw == Pick(tags)
  IN Assembled(
       [ camera |-> Camera(raw.Make, raw.Model),
         lens |-> raw.LensModel,
         focal_length |-> formatFocalLength(raw.FocalLength),
         focal_length_35mm |-> formatFocalLength(raw.FocalLengthIn35mmFormat),
         aperture |-> IF IsNullish(raw.FNumber) THEN NULL ELSE Text("f/", raw.FNumber.n, ""),
         shutter_speed |-> formatShutter(raw.ExposureTime),
         iso |-> raw.ISO,
         exposure_compensation |-> formatEV(raw.ExposureCompensation) ],
       [ camera |-> Truthy(Camera(raw.Make, raw.Model)),
         lens |-> Truthy(raw.LensModel),
         focal_length |-> ~IsNullish(raw.FocalLength),
         focal_length_35mm |-> ~IsNullish(raw.FocalLengthIn35mmFormat),
         aperture |-> ~IsNullish(raw.FNumber),
         shutter_speed |-> ~IsNullish(raw.ExposureTime),
         iso |-> ~IsNullish(raw.ISO),
         exposure_compensation |-> Truthy(formatEV(raw.ExposureCompensation)) ])

\* ---- parseFolderDate --------------------------------------------------------
\* A folder name is a tuple of tokens: a run of digits, a run of letters, or
\* one separator.
MONTH_NAMES ==
  [ january |-> 1, february |-> 2, march |-> 3, april |-> 4, may |-> 5, june |-> 6,
    july |-> 7, august |-> 8, september |-> 9, october |-> 10, november |-> 11,
    december |-> 12 ]

\* what an object literal inherits under a name of lower-case letters only
ObjectPrototype == {"constructor"}
InheritedFunction == Val("function", "", 0, "", <<"function Object() { [native code] }">>)

\* obj[key]
Lookup(obj, key) ==
  IF key \in DOMAIN obj THEN Num(obj[key])
  ELSE IF key \in ObjectPrototype THEN InheritedFunction
  ELSE UNDEFINED

Digits4 == {"2025"}
Digits2 == {"01", "26"}
Digits1 == {"6"}
LowerWords == {"january", "may", "foo", "constructor", "trip", "x"}

ToLowerCase(tok) ==
  CASE tok = "January" -> "january"
    [] tok = "MAY" -> "may"
    [] OTHER -> tok

\* String(n)
DecimalText(n) ==
  CASE n = 1 -> "1" [] n = 2 -> "2" [] n = 3 -> "3" [] n = 4 -> "4"
    [] n = 5 -> "5" [] n = 6 -> "6" [] n = 7 -> "7" [] n = 8 -> "8"
    [] n = 9 -> "9" [] n = 10 -> "10" [] n = 11 -> "11" [] OTHER -> "12"
StringOf(v) == IF v.t = "number" THEN DecimalText(v.n) ELSE v.w[1]

\* .padStart(2, '0')
PadStart2(tok) ==
  CASE tok = "1" -> "01" [] tok = "2" -> "02" [] tok = "3" -> "03"
    [] tok = "4" -> "04" [] tok = "5" -> "05" [] tok = "6" -> "06"
    [] tok = "7" -> "07" [] tok = "8" -> "08" [] tok = "9" -> "09"
    [] OTHER -> tok

\* /^(\d{4})-(\d{2})-(\d{2})/
MatchIso(name) ==
  /\ Len(name) >= 5
  /\ name[1] \in Digits4 /\ name[2] = "-" /\ name[3] \in Digits2
  /\ name[4] = "-" /\ name[5] \in Digits2

\* /^(\d{4})_([a-z]+)_(\d{1,2})/
MatchMonth(name) ==
  /\ Len(name) >= 5
  /\ name[1] \in Digits4 /\ name[2] = "_" /\ name[3] \in LowerWords
  /\ name[4] = "_" /\ name[5] \in Digits2 \cup Digits1

parseFolderDate(name) ==
  LET lower == [k \in 1..Len(name) |-> ToLowerCase(name[k])]
  IN IF MatchIso(name) THEN <<name[1], "-", name[3], "-", name[5]>>
     ELSE IF MatchMonth(lower) /\ Truthy(Lookup(MONTH_NAMES, lower[3]))
       THEN << lower[1], "-", PadStart2(StringOf(Lookup(MONTH_NAMES, lower[3]))),
               "-", PadStart2(lower[5]) >>
     ELSE name

FolderNames ==
  {<<"trip">>}
    \cup { <<y, s1, m, s2, d>> \o rest :
             y \in {"2025", "trip"}, s1 \in {"-", "_"},
             m \in {"01", "january", "January", "MAY", "foo", "constructor"},
             s2 \in {"-", "_"}, d \in {"26", "6", "x"},
             rest \in {<<>>, <<"_", "trip">>} }

\* ---- the gallery: checkerboard ------------------------------------------------
\* ToNumber for a relational comparison: NaN compares false with everything
Comparable(v) == v.t \in {"number", "null"}
ToNumber(v) == IF v.t = "number" THEN v.n ELSE 0
AtLeast(v, t) == Comparable(v) /\ ToNumber(v) >= t
Below(v, t) == Comparable(v) /\ ToNumber(v) < t

\* shuffle(arr): any order of the same elements, by Math.random
Shuffles(arr) ==
  {t \in [1..Len(arr) -> Range(arr)] : \A i, j \in 1..Len(arr) : i # j => t[i] # t[j]}

\* for (i...) { if (bright[i]) push; if (dark[i]) push }
RECURSIVE Interleave(_, _)
Interleave(bright, dark) ==
  IF bright = <<>> THEN dark
  ELSE IF dark = <<>> THEN bright
  ELSE <<bright[1], dark[1]>> \o Interleave(Tail(bright), Tail(dark))

\* the lists checkerboard(photos) may return
checkerboard(photos) ==
  LET bright == SelectSeq(photos, LAMBDA p : AtLeast(p.luminance, THRESHOLD))
      dark == SelectSeq(photos, LAMBDA p : Below(p.luminance, THRESHOLD))
  IN {Interleave(b, d) : b \in Shuffles(bright), d \in Shuffles(dark)}

\* catalogues of the gallery: entry k has id k; an entry written by the
\* first generation of the pipeline has no luminance
Luminances == {UNDEFINED, Num(10), Num(50), Num(90)}
Galleries ==
  UNION { { [k \in 1..n |-> [id |-> k, luminance |-> l[k]]] : l \in [1..n -> Luminances] }
          : n \in 0..MaxPhotos }

\* the values the helpers are called with
EVs == {UNDEFINED, NULL} \cup {Num(n) : n \in (0 - MaxEV)..MaxEV}
Makes == {UNDEFINED, Str(<<>>), Str(<<"Apple">>)}
Models == {UNDEFINED, Str(<<"Apple", "iPhone">>)}
Lenses == {UNDEFINED, Str(<<>>), Str(<<"L">>)}
ExifInfos ==
  { [given |-> FALSE, camera_make |-> UNDEFINED, camera_model |-> UNDEFINED,
     lens_model |-> UNDEFINED, focal_length |-> UNDEFINED, aperture |-> UNDEFINED,
     shutter_speed |-> UNDEFINED, iso |-> UNDEFINED, exposure_bias |-> UNDEFINED,
     latitude |-> UNDEFINED] }
  \cup
  [ given : {TRUE}, camera_make : Makes, camera_model : Models, lens_model : Lenses,
    focal_length : {UNDEFINED, NULL, Num(1)}, aperture : {UNDEFINED, Num(1)},
    shutter_speed : {UNDEFINED, Num(0), Num(1)}, iso : {UNDEFINED, NULL, Num(0)},
    exposure_bias : EVs, latitude : {UNDEFINED, Num(1)} ]
FileTags ==
  [ Make : Makes, Model : Models, LensModel : Lenses,
    FocalLength : {UNDEFINED, Num(1)}, FocalLengthIn35mmFormat : {UNDEFINED, Num(1)},
    FNumber : {UNDEFINED, Num(1)}, ExposureTime : {UNDEFINED, Num(0), Num(1)},
    ISO : {UNDEFINED, Num(0)}, ExposureCompensation : EVs,
    GPSLatitude : {UNDEFINED, Num(1)} ]

VARIABLES
  run,        \* number of runs started so far (also the clock of date_uploaded)
  pc,         \* position of the running process
  variant,    \* which generation of the script this run executes
  env,        \* the settings present in the environment
  file,       \* the catalogue file on disk: [kind, data]
  remote,     \* the object keys present in the bucket
  catalogue,  \* the in-memory catalogue
  src,        \* the enumeration: albumPhotos / images
  limit,      \* the cap parsed from the command line
  toDelete, toAdd, toAddLimited,
  reqs,       \* the delete requests issued: sequence of [key, st]
  idx,        \* loop position in the add loop
  knownIds, attempted,
  tmpDir,     \* the temporary export directory exists
  cause,      \* what made the run exit with status 1
  enumErr,    \* history: how the enumeration of this run went wrong
  before,     \* history: the catalogue file when the run started
  puts,       \* history: the keys uploaded by this run
  dels,       \* history: the objects removed from the bucket by this run
  pushed,     \* history: the entries appended by this run
  tried,      \* history: loop positions whose processing was attempted
  failed,     \* history: loop positions whose processing failed
  stderr,     \* what the run printed with console.error: [kind, names, pos]
  call,       \* a helper function called on its own: [fn, arg]
  ret,        \* <<>> until the call has returned, then <<value>>
  prev        \* history: what the previous run did

vars == <<run, pc, variant, env, file, remote, catalogue, src, limit, toDelete,
          toAdd, toAddLimited, reqs, idx, knownIds, attempted, tmpDir, cause, enumErr,
          before, puts, dels, pushed, tried, failed, stderr, prev, call, ret>>

io == <<call, ret>>
store == <<file, remote>>
diffv == <<toDelete, toAdd, toAddLimited>>
ctl == <<run, variant, env>>
hist == <<before, puts, dels, pushed, tried, failed, stderr, prev>>

NoPrev == [status |-> "none", variant |-> "lib", src |-> <<>>, nocap |-> FALSE,
           retry |-> {}]

NoCall == [fn |-> "none", arg |-> <<>>]

\* nothing has run yet
Fresh ==
  /\ run = 0
  /\ pc = "idle"
  /\ variant = "lib"
  /\ env = Settings
  /\ file \in {[kind |-> "missing", data |-> <<>>],
               [kind |-> "badjson", data |-> <<>>],
               [kind |-> "notarray", data |-> <<>>]}
  /\ remote = {}
  /\ catalogue = <<>>
  /\ src = <<>>
  /\ limit = Infinity
  /\ toDelete = <<>> /\ toAdd = <<>> /\ toAddLimited = <<>>
  /\ reqs = <<>>
  /\ idx = 1
  /\ knownIds = {}
  /\ attempted = 0
  /\ tmpDir = FALSE
  /\ cause = "none" /\ enumErr = "none"
  /\ before = file
  /\ puts = {} /\ dels = {} /\ pushed = <<>> /\ tried = {} /\ failed = {}
  /\ stderr = {}
  /\ prev = NoPrev

Init == Fresh /\ call = NoCall /\ ret = <<>>

Candidates == IF variant = "lib" THEN toAddLimited ELSE src
CandId(c) == IF variant = "lib" THEN c.uuid ELSE c.id

\* ---- process start: node scripts/photos-sync.js ---------------------------
\* Between two runs the source is either left exactly as the finished run
\* enumerated it and the same script is started again (prev remembers that
\* run), or anything may have happened to it (prev = NoPrev).
StartRun ==
  /\ pc \in {"idle", "done", "exit1"}
  /\ run < MaxRuns
  /\ run' = run + 1
  /\ pc' = "config"
  /\ \/ /\ pc = "done"
        /\ variant' = variant
        /\ prev' = [status |-> "done", variant |-> variant, src |-> src,
                    nocap |-> ~IsFinite(limit),
                    retry |-> {CandId(Candidates[k]) : k \in failed} \ IdsOf(pushed)]
     \/ /\ variant' \in Variants
        /\ prev' = NoPrev
  /\ env' \in {Settings} \cup {Settings \ {x} : x \in Settings} \cup {{}}
  /\ before' = file
  /\ catalogue' = <<>> /\ src' = <<>> /\ limit' = Infinity
  /\ toDelete' = <<>> /\ toAdd' = <<>> /\ toAddLimited' = <<>>
  /\ reqs' = <<>> /\ idx' = 1 /\ knownIds' = {} /\ attempted' = 0
  /\ tmpDir' = FALSE
  /\ cause' = "none" /\ enumErr' = "none"
  /\ puts' = {} /\ dels' = {} /\ pushed' = <<>> /\ tried' = {} /\ failed' = {}
  /\ stderr' = {}
  /\ UNCHANGED <<io, store>>

\* what an enumeration may return: the same as last time when the source
\* was left unchanged
Enumerations(all) == IF prev.status = "done" THEN {prev.src} ELSE all

\* process.exit(1), directly or from main().catch
Fatal(why) == pc' = "exit1" /\ cause' = why
ExitStatus == IF pc = "exit1" THEN 1 ELSE 0

\* one line of console.error output
Line(kind, names, pos) == [kind |-> kind, names |-> names, pos |-> pos]

\* mutant: the message names no variable at all
ConfigMessage_Bare(missing) == Line("config", {}, 0)

\* 'Missing env vars. Set ..., ..., ..., ..., ....' : the text is fixed
ConfigMessage(missing) == Line("config", Settings, 0)

\* if (!endpoint || !region || !bucket || !accessKeyId || !secretAccessKey)
CheckConfig ==
  /\ pc = "config"
  /\ IF env # Settings
       THEN /\ stderr' = stderr \cup {ConfigMessage(Settings \ env)}
            /\ Fatal("config")
       ELSE /\ pc' = IF variant = "lib" THEN "query" ELSE "load"
            /\ UNCHANGED <<cause, stderr>>
  /\ UNCHANGED <<io, ctl, store, catalogue, src, limit, diffv, reqs,
                 idx, knownIds, attempted, tmpDir, enumErr,
                 before, puts, dels, pushed, tried, failed, prev>>

\* 1. Query album
LibQuery ==
  /\ pc = "query"
  /\ \/ /\ Fatal("query")
        /\ enumErr' = "query"
        /\ UNCHANGED src
     \/ \E items \in SeqsUpTo(LibItems, MaxSrc) :
          /\ src' = SelectSeq(items, LAMBDA p : p.isphoto)
          /\ src' \in Enumerations({src'})
          /\ pc' = "load"
          /\ UNCHANGED <<cause, enumErr>>
  /\ UNCHANGED <<io, ctl, store, catalogue, limit, diffv, reqs,
                 idx, knownIds, attempted, tmpDir, hist>>

\* 2. Load catalogue (a parsed value that is no array makes the next
\* statement, catalogue.filter / catalogue.map, throw)
LoadCatalogue ==
  /\ pc = "load"
  /\ IF file.kind = "notarray"
       THEN /\ Fatal("catalogue")
            /\ UNCHANGED <<catalogue, knownIds>>
       ELSE /\ catalogue' = IF file.kind = "array" THEN file.data ELSE <<>>
            /\ knownIds' = IF variant = "lib" THEN {} ELSE IdsOf(catalogue')
            /\ pc' = IF variant = "lib" THEN "diff" ELSE "walk"
            /\ UNCHANGED cause
  /\ UNCHANGED <<io, ctl, store, src, limit, diffv, reqs,
                 idx, attempted, tmpDir, enumErr, hist>>

\* ---- the external-library variant (osxphotos) -----------------------------
IsUuidEntry(e) == Includes(e.id, DASH)
IsLegacyEntry(e) == ~Includes(e.id, DASH)

UuidEntries(cat) == SelectSeq(cat, IsUuidEntry)
LegacyEntries(cat) == SelectSeq(cat, IsLegacyEntry)

AlbumUuids(photos) == {photos[k].uuid : k \in 1..Len(photos)}

\* mutant: a legacy entry whose id the album lists counts as kept
KeptUuids_AnyEntry(cat, photos) ==
  {e.id : e \in {x \in Range(cat) : x.id \in AlbumUuids(photos)}}

KeptUuids(cat, photos) ==
  {e.id : e \in {x \in Range(UuidEntries(cat)) : x.id \in AlbumUuids(photos)}}

\* mutant: only the legacy entries are routed to deletion
ToDelete_LegacyOnly(cat, photos) == LegacyEntries(cat)

\* mutant: a legacy entry is deleted only when the album does not list its id
ToDelete_AbsentOnly(cat, photos) ==
  SelectSeq(cat, LAMBDA e : e.id \notin AlbumUuids(photos))

ToDelete(cat, photos) ==
  LegacyEntries(cat)
    \o SelectSeq(UuidEntries(cat), LAMBDA e : e.id \notin AlbumUuids(photos))

\* mutant: every album photo is a candidate, known or not
ToAdd_All(cat, photos) == photos

ToAdd(cat, photos) ==
  SelectSeq(photos, LAMBDA p : p.uuid \notin KeptUuids(cat, photos))

\* mutant: the cap is parsed but never applied
ToAddLimited_Uncapped(toadd, lim) == toadd

ToAddLimited(toadd, lim) == IF IsFinite(lim) THEN Slice(toadd, lim) ELSE toadd

\* 3. Diff, and --limit N
LibDiff ==
  /\ pc = "diff"
  /\ \E lim \in Limits :
       /\ limit' = lim
       /\ toDelete' = ToDelete(catalogue, src)
       /\ toAdd' = ToAdd(catalogue, src)
       /\ toAddLimited' = ToAddLimited(toAdd', lim)
  /\ pc' = "delete"
  /\ UNCHANGED <<io, ctl, store, catalogue, src, reqs,
                 idx, knownIds, attempted, tmpDir, cause, enumErr, hist>>

\* deleteFromS3: the two keys of an entry
DeleteExt(entry) == IF Includes(entry.id, DASH) THEN "webp" ELSE "jpg"
\* mutant: the thumbnail key is sent twice, the preview key never
DeleteKeys_ThumbTwice(entry) ==
  << Key(NoAlbum, entry.id, THUMB, DeleteExt(entry)),
     Key(NoAlbum, entry.id, THUMB, DeleteExt(entry)) >>

DeleteKeys(entry) ==
  << Key(NoAlbum, entry.id, THUMB, DeleteExt(entry)),
     Key(NoAlbum, entry.id, PREVIEW, DeleteExt(entry)) >>

RECURSIVE DeleteRequests(_)
DeleteRequests(entries) ==
  IF entries = <<>> THEN <<>>
  ELSE << [key |-> DeleteKeys(entries[1])[1], st |-> "pending"],
          [key |-> DeleteKeys(entries[1])[2], st |-> "pending"] >>
       \o DeleteRequests(Tail(entries))

Pending == {k \in 1..Len(reqs) : reqs[k].st = "pending"}

\* 4. toDelete.map(entry => deleteFromS3(entry)): every request is sent
\* before the first await yields
LibIssueDeletes ==
  /\ pc = "delete"
  /\ IF Len(toDelete) > 0
       THEN /\ reqs' = DeleteRequests(toDelete)
            /\ pc' = "awaitDel"
       ELSE /\ pc' = "export"
            /\ UNCHANGED reqs
  /\ UNCHANGED <<io, ctl, store, catalogue, src, limit, diffv,
                 idx, knownIds, attempted, tmpDir, cause, enumErr, hist>>

\* one DeleteObjectCommand settles; a rejection is caught and logged
SettleDelete ==
  /\ pc = "awaitDel"
  /\ \E k \in Pending :
       \/ /\ reqs' = [reqs EXCEPT ![k].st = "ok"]
          /\ remote' = remote \ {reqs[k].key}
          /\ dels' = dels \cup (remote \cap {reqs[k].key})
       \/ /\ reqs' = [reqs EXCEPT ![k].st = "failed"]
          /\ UNCHANGED <<remote, dels>>
  /\ UNCHANGED <<io, ctl, pc, file, catalogue, src, limit, diffv, idx, knownIds,
                 attempted, tmpDir, cause, enumErr, before, puts, pushed,
                 tried, failed, stderr, prev>>

\* mutant: an entry stays when one of its delete requests failed
Prune_OnlyDeleted(cat, del) ==
  SelectSeq(cat, LAMBDA e :
    \/ e.id \notin IdsOf(del)
    \/ \E k \in 1..Len(reqs) : reqs[k].key.id = e.id /\ reqs[k].st = "failed")

Prune(cat, del) == SelectSeq(cat, LAMBDA e : e.id \notin IdsOf(del))

\* mutant: the prune does not wait for the requests to settle
LibPrune_NoAwait ==
  /\ pc = "awaitDel"
  /\ catalogue' = Prune(catalogue, toDelete)
  /\ pc' = "export"
  /\ UNCHANGED <<io, ctl, store, src, limit, diffv, reqs,
                 idx, knownIds, attempted, tmpDir, cause, enumErr, hist>>

\* Promise.all resolved: drop the entries from the in-memory catalogue
LibPrune ==
  /\ pc = "awaitDel"
  /\ Pending = {}
  /\ catalogue' = Prune(catalogue, toDelete)
  /\ pc' = "export"
  /\ UNCHANGED <<io, ctl, store, src, limit, diffv, reqs,
                 idx, knownIds, attempted, tmpDir, cause, enumErr, hist>>

\* 7. Sort + write catalogue: catalogue.sort(...); writeFileSync(CATALOGUE_PATH, ...)
SortAndWrite ==
  /\ catalogue' = SortCatalogue(catalogue)
  /\ file' = [kind |-> "array", data |-> catalogue']
  /\ pc' = "done"
  /\ UNCHANGED cause

\* 5. Export new photos via osxphotos (process.exit inside the try block
\* ends the process at once: the finally block does not run)
LibExport ==
  /\ pc = "export"
  /\ IF Len(toAddLimited) = 0
       THEN /\ SortAndWrite
            /\ UNCHANGED tmpDir
       ELSE /\ tmpDir' = TRUE
            /\ \/ Fatal("export")
               \/ pc' = "loop" /\ UNCHANGED cause
            /\ UNCHANGED <<file, catalogue>>
  /\ UNCHANGED <<io, ctl, remote, src, limit, diffv, reqs,
                 idx, knownIds, attempted, enumErr, hist>>

LibEntry(photo, now) ==
  [ id |-> photo.uuid,
    album |-> Slice10(photo.date),
    date_taken |-> photo.date,
    date_uploaded |-> now,
    thumb_url |-> Url("vhost", Key(NoAlbum, photo.uuid, THUMB, "webp")),
    preview_url |-> Url("vhost", Key(NoAlbum, photo.uuid, PREVIEW, "webp")),
    luminance |-> TRUE ]

Outcomes == {"missing", "transcode", "thumbPut", "previewPut", "ok"}

\* mutant: the preview is never uploaded
Uploaded_ThumbOnly(outcome, thumbKey, previewKey) ==
  IF outcome \in {"ok", "previewPut"} THEN {thumbKey} ELSE {}

\* what one pass of the upload section leaves in the bucket
Uploaded(outcome, thumbKey, previewKey) ==
  IF outcome = "ok" THEN {thumbKey, previewKey}
  ELSE IF outcome = "previewPut" THEN {thumbKey}
  ELSE {}

\* console.error in the catch block (and for a missing exported file): the
\* line tells a failure of the metadata stage from any other
Logged(outcome, pos) ==
  IF outcome = "ok" THEN {}
  ELSE {Line(IF outcome = "metadata" THEN "metadata" ELSE "photo", {}, pos)}

\* mutant: pushing an entry stamps its upload time on every entry
Pushed_Restamp(cat, entry, outcome) ==
  IF outcome = "ok"
    THEN Append([k \in 1..Len(cat) |-> [cat[k] EXCEPT !.date_uploaded = entry.date_uploaded]],
                entry)
    ELSE cat

\* catalogue.push(entry) is the last statement of the try block
Pushed(cat, entry, outcome) == IF outcome = "ok" THEN Append(cat, entry) ELSE cat

\* 6. Process + upload: one iteration of the for loop
LibProcess ==
  /\ pc = "loop" /\ variant = "lib"
  /\ idx <= Len(toAddLimited)
  /\ \E outcome \in Outcomes :
       LET photo == toAddLimited[idx]
           entry == LibEntry(photo, run)
           up == Uploaded(outcome, entry.thumb_url.key, entry.preview_url.key)
       IN /\ remote' = remote \cup up
          /\ puts' = puts \cup up
          /\ tried' = IF outcome = "missing" THEN tried ELSE tried \cup {idx}
          /\ catalogue' = Pushed(catalogue, entry, outcome)
          /\ pushed' = Pushed(pushed, entry, outcome)
          /\ failed' = IF outcome = "ok" THEN failed ELSE failed \cup {idx}
          /\ stderr' = stderr \cup Logged(outcome, idx)
  /\ idx' = idx + 1
  /\ UNCHANGED <<io, ctl, pc, file, src, limit, diffv, reqs,
                 knownIds, attempted, tmpDir, cause, enumErr, before, dels, prev>>

\* the loop is over: finally { rmSync(tmpDir) }, then 7. sort + write
LibFinish ==
  /\ pc = "loop" /\ variant = "lib"
  /\ idx > Len(toAddLimited)
  /\ tmpDir' = FALSE
  /\ SortAndWrite
  /\ UNCHANGED <<io, ctl, remote, src, limit, diffv, reqs,
                 idx, knownIds, attempted, enumErr, hist>>

\* ---- the filesystem variants ----------------------------------------------
\* walkImages(PHOTOS_DIR): a missing root yields the empty list, a root that
\* cannot be read makes readdirSync throw out of main
FsWalk ==
  /\ pc = "walk"
  /\ \E lim \in (IF variant = "fs2" THEN Limits ELSE {Infinity}) : limit' = lim
  /\ \/ /\ src' = <<>>
        /\ src' \in Enumerations({src'})
        /\ enumErr' = "missing"
        /\ pc' = "loop"
        /\ UNCHANGED cause
     \/ /\ Fatal("walk")
        /\ enumErr' = "unreadable"
        /\ UNCHANGED src
     \/ /\ src' \in Enumerations(SeqsUpTo(FsFiles, MaxSrc))
        /\ pc' = "loop"
        /\ UNCHANGED <<cause, enumErr>>
  /\ UNCHANGED <<io, ctl, store, catalogue, diffv, reqs,
                 idx, knownIds, attempted, tmpDir, hist>>

\* raw.DateTimeOriginal as the try block sees it: exifr failing gives {}
RawDto(id, exifOk) ==
  IF exifOk THEN Dto(id) ELSE [kind |-> "none", date |-> <<>>]

FsAlbum(v, f, dto) ==
  IF dto.kind = "valid" THEN Slice10(dto.date)
  ELSE IF v = "fs1" THEN ParseFolderDate(f.folder)
  ELSE UNKNOWN

\* `${album}T00:00:00`
FsDateTaken(album, dto) ==
  IF dto.kind = "none" THEN album \o <<0>> ELSE dto.date

FsKeyAlbum(v, album) == IF v = "fs1" THEN album ELSE NoAlbum
FsBase(v) == IF v = "fs1" THEN "path" ELSE "vhost"

FsEntry(v, f, dto, now) ==
  LET album == FsAlbum(v, f, dto)
  IN [ id |-> f.id,
       album |-> album,
       date_taken |-> FsDateTaken(album, dto),
       date_uploaded |-> now,
       thumb_url |-> Url(FsBase(v), Key(FsKeyAlbum(v, album), f.id, THUMB, "jpg")),
       preview_url |-> Url(FsBase(v), Key(FsKeyAlbum(v, album), f.id, PREVIEW, "jpg")),
       luminance |-> (v = "fs2") ]

FsOutcomes == {"transcode", "thumbPut", "previewPut", "ok"}

\* new Date(raw.DateTimeOriginal).toISOString() throws on an invalid date,
\* before anything is transcoded or uploaded
FsOutcome(dto, outcome) == IF dto.kind = "invalid" THEN "metadata" ELSE outcome

\* mutant: an ingested id is never marked as known
KnownAfter_Never(known, id, outcome) == known

\* mutant: the id is marked as known before the try block
KnownAfter_Always(known, id, outcome) == known \cup {id}

\* knownIds.add(id) follows catalogue.push(entry) inside the try block
KnownAfter(known, id, outcome) == IF outcome = "ok" THEN known \cup {id} ELSE known

\* mutant: the fatal handler saves the catalogue before exiting
FsReadFails_Saves ==
  /\ pc = "loop" /\ variant # "lib"
  /\ idx <= Len(src)
  /\ Fatal("read")
  /\ catalogue' = SortCatalogue(catalogue)
  /\ file' = [kind |-> "array", data |-> catalogue']
  /\ UNCHANGED <<io, ctl, remote, src, limit, diffv, reqs,
                 idx, knownIds, attempted, tmpDir, enumErr, hist>>

\* reading a source file happens outside the try block
FsReadFails ==
  /\ pc = "loop" /\ variant # "lib"
  /\ idx <= Len(src)
  /\ Fatal("read")
  /\ UNCHANGED <<io, ctl, store, catalogue, src, limit, diffv, reqs,
                 idx, knownIds, attempted, tmpDir, enumErr, hist>>

\* if (knownIds.has(id)) { skipped++; continue; }
FsSkip ==
  /\ pc = "loop" /\ variant # "lib"
  /\ idx <= Len(src)
  /\ src[idx].id \in knownIds
  /\ idx' = idx + 1
  /\ UNCHANGED <<io, ctl, pc, store, catalogue, src, limit, diffv,
                 reqs, knownIds, attempted, tmpDir, cause, enumErr, hist>>

\* if (attempted >= limit) break; then sort + write
FsBreak ==
  /\ pc = "loop" /\ variant = "fs2"
  /\ idx <= Len(src)
  /\ src[idx].id \notin knownIds
  /\ attempted >= limit
  /\ SortAndWrite
  /\ UNCHANGED <<io, ctl, remote, src, limit, diffv, reqs,
                 idx, knownIds, attempted, tmpDir, enumErr, hist>>

\* one iteration of the for loop that reaches the try block
FsProcess ==
  /\ pc = "loop" /\ variant # "lib"
  /\ idx <= Len(src)
  /\ src[idx].id \notin knownIds
  /\ variant = "fs2" => attempted < limit
  /\ attempted' = IF variant = "fs2" THEN attempted + 1 ELSE attempted
  /\ \E exifOk \in BOOLEAN, o \in FsOutcomes :
       LET f == src[idx]
           dto == RawDto(f.id, exifOk)
           outcome == FsOutcome(dto, o)
           entry == FsEntry(variant, f, dto, run)
           up == Uploaded(outcome, entry.thumb_url.key, entry.preview_url.key)
       IN /\ remote' = remote \cup up
          /\ puts' = puts \cup up
          /\ tried' = tried \cup {idx}
          /\ catalogue' = Pushed(catalogue, entry, outcome)
          /\ knownIds' = KnownAfter(knownIds, f.id, outcome)
          /\ pushed' = Pushed(pushed, entry, outcome)
          /\ failed' = IF outcome = "ok" THEN failed ELSE failed \cup {idx}
          /\ stderr' = stderr \cup Logged(outcome, idx)
  /\ idx' = idx + 1
  /\ UNCHANGED <<io, ctl, pc, file, src, limit, diffv, reqs,
                 tmpDir, cause, enumErr, before, dels, prev>>

\* the loop is over: sort + write
FsFinish ==
  /\ pc = "loop" /\ variant # "lib"
  /\ idx > Len(src)
  /\ SortAndWrite
  /\ UNCHANGED <<io, ctl, remote, src, limit, diffv, reqs,
                 idx, knownIds, attempted, tmpDir, enumErr, hist>>

\* ---- the system -------------------------------------------------------------
Next ==
  \/ StartRun
  \/ CheckConfig
  \/ LibQuery
  \/ LoadCatalogue
  \/ LibDiff
  \/ LibIssueDeletes
  \/ SettleDelete
  \/ LibPrune
  \/ LibExport
  \/ LibProcess
  \/ LibFinish
  \/ FsWalk
  \/ FsReadFails
  \/ FsSkip
  \/ FsBreak
  \/ FsProcess
  \/ FsFinish

Spec == Init /\ [][Next]_vars

TypeOK ==
  /\ run \in 0..MaxRuns
  /\ pc \in {"idle", "config", "query", "load", "diff", "delete", "awaitDel",
             "export", "walk", "loop", "done", "exit1"}
  /\ variant \in Variants
  /\ cause \in {"none", "config", "query", "catalogue", "walk", "export", "read"}
  /\ enumErr \in {"none", "query", "missing", "unreadable"}
  /\ \A m \in stderr : m.kind \in {"config", "metadata", "photo"}

\* ---- the helper functions called on their own ------------------------------
Calls ==
  {[fn |-> "formatEV", arg |-> v] : v \in EVs}
    \cup {[fn |-> "buildExif", arg |-> i] : i \in ExifInfos}
    \cup {[fn |-> "FsExif", arg |-> t] : t \in FileTags}
    \cup {[fn |-> "parseFolderDate", arg |-> n] : n \in FolderNames}
    \cup {[fn |-> "checkerboard", arg |-> g] : g \in Galleries}

FnInit == Fresh /\ file.kind = "missing" /\ call \in Calls /\ ret = <<>>

\* everything a run of the pipeline reads or writes
pipeline == <<ctl, store, pc, catalogue, src, limit, diffv, reqs, idx,
              knownIds, attempted, tmpDir, cause, enumErr, hist>>

CallFormatEV ==
  /\ call.fn = "formatEV" /\ ret = <<>>
  /\ ret' = <<formatEV(call.arg)>>
  /\ UNCHANGED <<call, pipeline>>

CallBuildExif ==
  /\ call.fn = "buildExif" /\ ret = <<>>
  /\ ret' = <<buildExif(call.arg)>>
  /\ UNCHANGED <<call, pipeline>>

CallFsExif ==
  /\ call.fn = "FsExif" /\ ret = <<>>
  /\ ret' = <<FsExif(call.arg)>>
  /\ UNCHANGED <<call, pipeline>>

CallParseFolderDate ==
  /\ call.fn = "parseFolderDate" /\ ret = <<>>
  /\ ret' = <<parseFolderDate(call.arg)>>
  /\ UNCHANGED <<call, pipeline>>

CallCheckerboard ==
  /\ call.fn = "checkerboard" /\ ret = <<>>
  /\ \E shown \in checkerboard(call.arg) : ret' = <<shown>>
  /\ UNCHANGED <<call, pipeline>>

FnNext ==
  \/ CallFormatEV
  \/ CallBuildExif
  \/ CallFsExif
  \/ CallParseFolderDate
  \/ CallCheckerboard

FnSpec == FnInit /\ [][FnNext]_vars

\* ---- the same script started again and again -------------------------------
\* The operator keeps starting one of the two variants that take a cap, with
\* every setting present, over a source that stays as the first completed
\* run enumerated it. The clock of date_uploaded is held at 1.
Rerun ==
  /\ pc \in {"idle", "done", "exit1"}
  /\ run' = 1
  /\ pc' = "config"
  /\ variant' \in IF pc = "idle" THEN {"lib", "fs2"} ELSE {variant}
  /\ prev' = IF pc = "done"
               THEN [status |-> "done", variant |-> variant, src |-> src,
                     nocap |-> ~IsFinite(limit),
                     retry |-> {CandId(Candidates[k]) : k \in failed} \ IdsOf(pushed)]
               ELSE prev
  /\ env' = Settings
  /\ before' = file
  /\ catalogue' = <<>> /\ src' = <<>> /\ limit' = Infinity
  /\ toDelete' = <<>> /\ toAdd' = <<>> /\ toAddLimited' = <<>>
  /\ reqs' = <<>> /\ idx' = 1 /\ knownIds' = {} /\ attempted' = 0
  /\ tmpDir' = FALSE
  /\ cause' = "none" /\ enumErr' = "none"
  /\ puts' = {} /\ dels' = {} /\ pushed' = <<>> /\ tried' = {} /\ failed' = {}
  /\ stderr' = {}
  /\ UNCHANGED <<io, store>>

LiveInit == Init /\ file.kind = "missing"

LiveNext ==
  \/ Rerun
  \/ CheckConfig
  \/ LibQuery
  \/ LoadCatalogue
  \/ LibDiff
  \/ LibIssueDeletes
  \/ SettleDelete
  \/ LibPrune
  \/ LibExport
  \/ LibProcess
  \/ LibFinish
  \/ FsWalk
  \/ FsReadFails
  \/ FsSkip
  \/ FsBreak
  \/ FsProcess
  \/ FsFinish

\* the process always takes its next step and the operator always starts
\* the next run; whether a photo succeeds is left open
LiveSpec == LiveInit /\ [][LiveNext]_vars /\ WF_vars(LiveNext)

\* ---- what the claims speak about -------------------------------------------
\* the catalogue the run loaded (the empty list for a missing or corrupt file)
LoadedCat == IF before.kind = "array" THEN before.data ELSE <<>>
SourceIds == {CandId(src[k]) : k \in 1..Len(src)}
RetryNow == {CandId(Candidates[k]) : k \in failed} \ IdsOf(pushed)
AfterPrune == {"export", "loop", "done"}
Repeated == pc = "done" /\ prev.status = "done" /\ prev.nocap /\ ~IsFinite(limit)
SecondRunChangesNothing ==
  pushed = <<>> /\ toDelete = <<>> /\ dels = {} /\ file.data = before.data

C3_LegacyMigration ==
  (variant = "lib" /\ pc \in {"delete", "awaitDel"} \cup AfterPrune) =>
    \A e \in Range(LoadedCat) :
      IsLegacyEntry(e) =>
        /\ e \in Range(toDelete)
        /\ pc \in AfterPrune => e \notin Range(catalogue)
        /\ pc = "export" => e.id \notin IdsOf(catalogue)

C3_Witness ==
  /\ variant = "lib" /\ pc = "export"
  /\ \E e \in Range(LoadedCat) : IsLegacyEntry(e) /\ e.id \in SourceIds
  /\ \E e \in Range(LoadedCat) : IsLegacyEntry(e) /\ e.id \notin SourceIds

\* C4: with a cap N at most N photos are processed, and the to-delete set
\* and its removal do not depend on N.
C4_Cap ==
  /\ (variant \in {"lib", "fs2"} /\ IsFinite(limit)) =>
       /\ Cardinality(tried \cup failed) <= limit
       /\ Len(pushed) <= limit
       /\ Cardinality(puts) <= 2 * limit
  /\ (variant = "lib" /\ pc \in AfterPrune) =>
       /\ toDelete = ToDelete(LoadedCat, src)
       /\ Len(reqs) = 2 * Len(toDelete)
       /\ \A e \in Range(toDelete) : e \notin Range(catalogue)

C4_Witness ==
  /\ variant = "lib" /\ pc = "done"
  /\ limit = 1 /\ Len(toAdd) = 2 /\ Len(pushed) = 1
  /\ Len(toDelete) >= 1

\* C5: while a delete request is in flight nothing of the add phase has
\* begun, and when the add phase runs every to-delete entry is already gone
\* from the in-memory catalogue.
C5_Ordering ==
  /\ Pending # {} =>
       pc = "awaitDel" /\ puts = {} /\ pushed = <<>> /\ ~tmpDir
  /\ (variant = "lib" /\ (pc \in {"export", "loop"} \/ tmpDir \/ puts # {} \/ pushed # <<>>)) =>
       /\ \A e \in Range(toDelete) : e \notin Range(catalogue)
       /\ pc = "export" => IdsOf(toDelete) \cap IdsOf(catalogue) = {}

C5_Witness ==
  /\ variant = "lib" /\ pc = "loop"
  /\ Len(reqs) = 4 /\ puts # {} /\ pushed # <<>>

\* C6 (as stated): a run that ends with a fatal error has uploaded nothing,
\* deleted nothing and left the catalogue file as it was.
C6_Original ==
  pc = "exit1" => (puts = {} /\ dels = {} /\ reqs = <<>> /\ file = before)

\* C6 (amended): a run that ends with a fatal error leaves the catalogue
\* file as it was; it has uploaded and deleted nothing when the error is a
\* missing setting, a failed enumeration or an unusable catalogue value.
C6_FatalAbort ==
  pc = "exit1" =>
    /\ file = before
    /\ cause \in {"config", "query", "walk", "catalogue"} =>
         (puts = {} /\ dels = {} /\ reqs = <<>>)

C6_Witness ==
  /\ pc = "exit1" /\ cause = "query"
  /\ before.kind = "array" /\ Len(before.data) > 0 /\ remote # {}

\* C7: a failed enumeration, in either sourcing mode, ends the run with a
\* non-zero status before any upload, delete or catalogue write.
C7_EnumerationFatal ==
  enumErr # "none" =>
    (pc = "exit1" /\ puts = {} /\ dels = {} /\ reqs = <<>> /\ file = before)

\* C8: a candidate whose processing fails gets no entry and is not marked as
\* known, the loop goes on with the next candidate, and the next run over
\* the same source has the photo among the photos to add.
C8_Step ==
  (pc = "loop" /\ pc' # "config" /\ failed' # failed) =>
    /\ catalogue' = catalogue /\ pushed' = pushed /\ knownIds' = knownIds
    /\ pc' = "loop" /\ idx' = idx + 1

C8_State ==
  /\ pc = "done" =>
       /\ RetryNow \cap IdsOf(file.data) = {}
       /\ \/ idx = Len(Candidates) + 1
          \/ variant = "fs2" /\ IsFinite(limit) /\ attempted >= limit
  /\ (prev.status = "done" /\ variant = "lib" /\ pc \in {"delete", "awaitDel"} \cup AfterPrune) =>
       prev.retry \subseteq AlbumUuids(toAdd)
  /\ (prev.status = "done" /\ variant # "lib" /\ pc = "walk") =>
       prev.retry \cap knownIds = {}

C9_DeleteFailure ==
  /\ (variant = "lib" /\ pc = "done") =>
       \A e \in Range(toDelete) : e \notin Range(file.data)
  /\ (pc = "exit1" /\ reqs # <<>>) => (cause = "export" /\ Pending = {})

C9_Witness ==
  /\ variant = "lib" /\ pc = "done" /\ Len(toDelete) = 2
  /\ \A k \in 1..Len(reqs) : reqs[k].st = "failed"

\* C10: once the prune phase has started a request has been issued for the
\* 600 and the 1800 key of every to-delete entry, and the phase ends only
\* when every one of them has settled, whichever of them failed.
C10_Independence ==
  (variant = "lib" /\ pc \in {"awaitDel", "exit1"} \cup AfterPrune) =>
    /\ Len(reqs) = 2 * Len(toDelete)
    /\ \A k \in 1..Len(toDelete) : \A size \in {THUMB, PREVIEW} :
         \E j \in 1..Len(reqs) :
           reqs[j].key.id = toDelete[k].id /\ reqs[j].key.size = size
    /\ pc # "awaitDel" => Pending = {}

C10_Witness ==
  /\ variant = "lib" /\ pc = "export" /\ Len(toDelete) = 2
  /\ reqs[1].st = "failed" /\ reqs[2].st = "ok"
  /\ reqs[3].st = "ok" /\ reqs[4].st = "failed"

\* C11: a run that finds the catalogue file missing or holding anything but
\* a usable array is not ended by it: it starts from the empty list, deletes
\* nothing, and has every enumerated photo among the photos to add.
C11_CatalogueLoad ==
  before.kind # "array" =>
    /\ cause # "catalogue"
    /\ pc \in {"diff", "walk"} => catalogue = <<>>
    /\ toDelete = <<>> /\ reqs = <<>> /\ dels = {}
    /\ (variant = "lib" /\ pc \in {"delete", "export", "loop", "done"}) => toAdd = src
    /\ (variant # "lib" /\ pc = "walk") => knownIds = {}

\* C12 (as stated): a missing setting ends the run at once with status 1 and
\* a message that names the settings that are missing.
C12_Original ==
  (pc # "config" /\ run > 0 /\ env # Settings) =>
    /\ pc = "exit1"
    /\ \E m \in stderr : m.kind = "config" /\ m.names = Settings \ env

\* C12 (amended): a missing setting ends the run with status 1 before the
\* source is enumerated, the catalogue loaded, the bucket contacted or a
\* file written, and the message lists the names of all five settings,
\* the missing ones among them.
C12_ConfigError ==
  (pc # "config" /\ run > 0 /\ env # Settings) =>
    /\ pc = "exit1" /\ cause = "config"
    /\ src = <<>> /\ enumErr = "none" /\ catalogue = <<>> /\ knownIds = {}
    /\ puts = {} /\ dels = {} /\ reqs = <<>> /\ ~tmpDir
    /\ file = before
    /\ \E m \in stderr : m.kind = "config" /\ m.names = Settings
    /\ \A m \in stderr : m.kind = "config" /\ (Settings \ env) \subseteq m.names

C12_Witness ==
  /\ pc = "exit1" /\ cause = "config"
  /\ Cardinality(Settings \ env) = 1
  /\ before.kind = "array" /\ Len(before.data) > 0 /\ remote # {}

\* C13: in the catalogue written by a completed run no entry is followed by
\* an entry whose date_taken is the greater string, code unit by code unit.
C13_SortOrder ==
  file.kind = "array" =>
    \A k \in 1..(Len(file.data) - 1) :
      ~LexLess(file.data[k].date_taken, file.data[k + 1].date_taken)

\* C14: no two entries of the persisted catalogue have the same id, also
\* when an enumeration lists one identity twice.
C14_IdUniqueness ==
  file.kind = "array" =>
    \A j, k \in 1..Len(file.data) : j # k => file.data[j].id # file.data[k].id

\* C15: the persisted catalogue holds every loaded entry the run did not
\* route to deletion, each with every field as it was loaded, and apart
\* from those only the whole entries the run appended.
Survivors == SelectSeq(LoadedCat, LAMBDA e : e \notin Range(toDelete))

C15_KeptUntouched ==
  pc = "done" =>
    /\ \A e \in Range(Survivors) : e \in Range(file.data)
    /\ \A e \in Range(file.data) : e \in Range(Survivors) \cup Range(pushed)
    /\ Len(file.data) = Len(Survivors) + Len(pushed)

C15_Witness ==
  /\ pc = "done" /\ run = 2
  /\ Len(Survivors) >= 1 /\ Len(pushed) >= 1
  /\ \E e \in Range(Survivors) : e.date_uploaded = 1 /\ e \in Range(file.data)

\* C16: in the filesystem variants a file whose bytes were ingested before,
\* by an earlier run or at an earlier position of this run, never reaches
\* the try block: its id is uploaded at most once by the run and, the loaded
\* catalogue being free of duplicates, the catalogue holds one entry for it.
CountId(cat, id) == Cardinality({n \in 1..Len(cat) : cat[n].id = id})
IngestedBefore(k) ==
  \/ src[k].id \in IdsOf(LoadedCat)
  \/ \E j \in tried \ failed : j < k /\ src[j].id = src[k].id
DuplicateFree(cat) == \A id \in IdsOf(cat) : CountId(cat, id) = 1

C16_ContentAddressing ==
  (variant # "lib" /\ pc \in {"loop", "done"}) =>
    \A k \in 1..Len(src) :
      IngestedBefore(k) =>
        /\ k \notin tried
        /\ Cardinality({j \in tried \ failed : src[j].id = src[k].id}) <= 1
        /\ src[k].id \in IdsOf(LoadedCat) => \A key \in puts : key.id # src[k].id
        /\ CountId(pushed, src[k].id) = IF src[k].id \in IdsOf(LoadedCat) THEN 0 ELSE 1
        /\ DuplicateFree(LoadedCat) => CountId(catalogue, src[k].id) = 1

C16_Witness ==
  /\ variant # "lib" /\ pc = "done"
  /\ Len(src) = 2 /\ src[1].id = src[2].id /\ src[1].name # src[2].name
  /\ tried = {1} /\ failed = {} /\ Len(pushed) = 1
  /\ CountId(file.data, src[2].id) = 1

\* C17: when the process has terminated, normally or with status 1, the
\* temporary export directory does not exist.
C17_TmpCleanup == pc \in {"done", "exit1"} => ~tmpDir

\* C18: a run in which a photo failed at any stage, the read of its file
\* included, still ends by writing the catalogue, and the written catalogue
\* has an entry for every photo uploaded by the run.
C18_PartialProgress ==
  (pc \in {"done", "exit1"} /\ (failed # {} \/ cause = "read")) =>
    /\ pc = "done" /\ file.kind = "array"
    /\ \A e \in Range(pushed) : e \in Range(file.data)
    /\ \A k \in tried \ failed : CandId(Candidates[k]) \in IdsOf(file.data)

\* C19: the exit status is non-zero only for an error of the run as a whole
\* (settings, enumeration, export command, catalogue value), never for a
\* single photo or a single delete request.
RunLevel == {"config", "query", "walk", "export", "catalogue"}

C19_ExitStatus == ExitStatus # 0 => cause \in RunLevel

\* C20: no photo is skipped because one of its metadata fields, the embedded
\* capture timestamp included, could not be parsed.
C20_MetadataDegradation == \A m \in stderr : m.kind # "metadata"

\* C23: the delete requests issued for an entry name exactly the keys of
\* its thumb_url and preview_url, so that with no failed request no
\* rendition of a removed entry is left in the bucket.
C23_RemoteCleanup ==
  (variant = "lib" /\ pc \in {"awaitDel"} \cup AfterPrune) =>
    /\ \A k \in 1..Len(toDelete) :
         /\ reqs[2 * k - 1].key = toDelete[k].thumb_url.key
         /\ reqs[2 * k].key = toDelete[k].preview_url.key
    /\ (pc = "export" /\ \A j \in 1..Len(reqs) : reqs[j].st = "ok") =>
         \A e \in Range(toDelete) :
           e.thumb_url.key \notin remote /\ e.preview_url.key \notin remote

\* C24: every entry appended by the run was appended after both of its
\* renditions were uploaded by the run; both objects are in the bucket
\* while the run lasts, and the two keys differ in the size suffix only.
C24_EntryCreation ==
  \A e \in Range(pushed) :
    /\ e \in Range(catalogue)
    /\ {e.thumb_url.key, e.preview_url.key} \subseteq puts
    /\ {e.thumb_url.key, e.preview_url.key} \subseteq remote
    /\ e.thumb_url.key.size = THUMB /\ e.preview_url.key.size = PREVIEW
    /\ [e.thumb_url.key EXCEPT !.size = PREVIEW] = e.preview_url.key
    /\ e.thumb_url.base = e.preview_url.base

C24_Witness ==
  /\ pc = "loop" /\ Len(pushed) = 1 /\ failed # {}
  /\ \E k \in failed : k < idx - 1
  /\ Cardinality(puts) = 3 /\ dels # {}

\* C25: in the filesystem variants the album of a new entry is the date
\* part of the embedded timestamp when that is usable, else what the
\* folder-name parser makes of the photo's folder, else, for a file that
\* lies in the root itself, the sentinel label.
AlbumByPriority(f, dto) ==
  IF dto.kind = "valid" THEN Slice10(dto.date)
  ELSE IF ~f.inRoot THEN ParseFolderDate(f.folder)
  ELSE UNKNOWN

C25_Step ==
  (variant # "lib" /\ pc = "loop" /\ Len(pushed') = Len(pushed) + 1) =>
    pushed'[Len(pushed')].album \in
      {AlbumByPriority(src[idx], RawDto(src[idx].id, ok)) : ok \in BOOLEAN}

C25_AlbumPriority == [][C25_Step]_vars

\* C26: the date_taken of every entry the pipeline creates is a timestamp
\* of digits, never a text.
IsTimestamp(d) == Len(d) = 2 /\ \A k \in 1..Len(d) : d[k] \in 0..6

C26_DateTaken == \A e \in Range(pushed) : IsTimestamp(e.date_taken)

\* C28: in the external-library variant the kept entries and the to-delete
\* entries partition the loaded catalogue, no photo to add has a kept id,
\* and a run with no cap and no failed photo leaves a catalogue whose ids
\* are exactly the ids of the album.
KeptEntries == SelectSeq(LoadedCat, LAMBDA e : e.id \in KeptUuids(LoadedCat, src))

C28_Convergence ==
  (variant = "lib" /\ pc \in {"delete", "awaitDel"} \cup AfterPrune) =>
    /\ Range(KeptEntries) \cap Range(toDelete) = {}
    /\ Range(KeptEntries) \cup Range(toDelete) = Range(LoadedCat)
    /\ Len(KeptEntries) + Len(toDelete) = Len(LoadedCat)
    /\ AlbumUuids(toAdd) \cap KeptUuids(LoadedCat, src) = {}
    /\ AlbumUuids(toAdd) \cup KeptUuids(LoadedCat, src) = SourceIds
    /\ (pc = "done" /\ ~IsFinite(limit) /\ failed = {}) =>
         IdsOf(file.data) = SourceIds

C28_Witness ==
  /\ variant = "lib" /\ pc = "done" /\ ~IsFinite(limit) /\ failed = {}
  /\ Len(KeptEntries) = 1 /\ Len(toDelete) >= 1 /\ Len(pushed) = 1
  /\ \E e \in Range(toDelete) : e.id \in SourceIds

\* C21: formatEV gives "0 EV" for 0, the value with a leading '+' and " EV"
\* for a positive value, the value with its own '-' and " EV" for a
\* negative one, and for an absent value the exif map gets no
\* exposure_compensation key.
ExpectedEV(v) ==
  IF v.n = 0 THEN Text("", 0, " EV")
  ELSE IF v.n > 0 THEN Text("+", v.n, " EV")
  ELSE Text("", v.n, " EV")

EVOf(c) ==
  IF c.fn = "buildExif" THEN c.arg.exposure_bias ELSE c.arg.ExposureCompensation

C21_FormatEV ==
  /\ (call.fn = "formatEV" /\ ret # <<>>) =>
       IF IsNullish(call.arg) THEN ~Truthy(ret[1]) ELSE ret[1] = ExpectedEV(call.arg)
  /\ (call.fn = "FsExif" \/ (call.fn = "buildExif" /\ call.arg.given)) /\ ret # <<>> =>
       IF IsNullish(EVOf(call))
         THEN "exposure_compensation" \notin DOMAIN ret[1]
         ELSE /\ "exposure_compensation" \in DOMAIN ret[1]
              /\ ret[1]["exposure_compensation"] = ExpectedEV(EVOf(call))

C21_Witness ==
  /\ call.fn = "formatEV" /\ ret # <<>>
  /\ call.arg.t = "number" /\ call.arg.n > 0 /\ ret[1].pre = "+"

\* C27: the exif map has only the eight known keys, a key only when its raw
\* value was extracted, never a null or undefined value, and nothing about
\* the location of the photo.
RawOf(c, key) ==
  IF c.fn = "buildExif"
    THEN CASE key = "camera" -> {c.arg.camera_make, c.arg.camera_model}
           [] key = "lens" -> {c.arg.lens_model}
           [] key = "focal_length" -> {c.arg.focal_length}
           [] key = "focal_length_35mm" -> {}
           [] key = "aperture" -> {c.arg.aperture}
           [] key = "shutter_speed" -> {c.arg.shutter_speed}
           [] key = "iso" -> {c.arg.iso}
           [] OTHER -> {c.arg.exposure_bias}
    ELSE CASE key = "camera" -> {c.arg.Make, c.arg.Model}
           [] key = "lens" -> {c.arg.LensModel}
           [] key = "focal_length" -> {c.arg.FocalLength}
           [] key = "focal_length_35mm" -> {c.arg.FocalLengthIn35mmFormat}
           [] key = "aperture" -> {c.arg.FNumber}
           [] key = "shutter_speed" -> {c.arg.ExposureTime}
           [] key = "iso" -> {c.arg.ISO}
           [] OTHER -> {c.arg.ExposureCompensation}

C27_SparseExif ==
  (call.fn \in {"buildExif", "FsExif"} /\ ret # <<>>) =>
    /\ DOMAIN ret[1] \subseteq ExifKeys
    /\ \A k \in DOMAIN ret[1] :
         /\ ~IsNullish(ret[1][k])
         /\ \E raw \in RawOf(call, k) : ~IsNullish(raw)

C27_Witness ==
  /\ call.fn = "buildExif" /\ ret # <<>> /\ call.arg.given
  /\ call.arg.iso = NULL /\ call.arg.focal_length = UNDEFINED
  /\ call.arg.latitude # UNDEFINED
  /\ DOMAIN ret[1] = {"camera", "shutter_speed"}

\* C22: a name that starts with YYYY-MM-DD yields that prefix, a name that
\* starts with YYYY_month_D or YYYY_month_DD, whatever the case of the
\* month name, yields the zero-padded date, and every other name comes
\* back unchanged.
MonthNumber ==
  [ january |-> "01", february |-> "02", march |-> "03", april |-> "04", may |-> "05",
    june |-> "06", july |-> "07", august |-> "08", september |-> "09",
    october |-> "10", november |-> "11", december |-> "12" ]

HasMonthPrefix(name) ==
  /\ Len(name) >= 5
  /\ name[1] \in Digits4 /\ name[2] = "_" /\ name[4] = "_"
  /\ ToLowerCase(name[3]) \in DOMAIN MonthNumber
  /\ name[5] \in Digits2 \cup Digits1

ExpectedDate(name) ==
  IF MatchIso(name) THEN SubSeq(name, 1, 5)
  ELSE IF HasMonthPrefix(name)
    THEN << name[1], "-", MonthNumber[ToLowerCase(name[3])], "-",
            IF name[5] \in Digits1 THEN PadStart2(name[5]) ELSE name[5] >>
  ELSE name

C22_FolderDate ==
  (call.fn = "parseFolderDate" /\ ret # <<>>) => ret[1] = ExpectedDate(call.arg)

\* C30: the list checkerboard returns holds every entry of the catalogue it
\* was given exactly once, entries without a luminance included.
C30_GalleryComplete ==
  (call.fn = "checkerboard" /\ ret # <<>>) =>
    /\ Len(ret[1]) = Len(call.arg)
    /\ \A k \in 1..Len(call.arg) :
         Cardinality({j \in 1..Len(ret[1]) : ret[1][j] = call.arg[k]}) = 1

\* C29: under runs repeated over an unchanged source with a cap of at least
\* one, every photo of the source is at some time ingested or at least
\* attempted: no photo is passed over for ever because photos before it fail.
AllIds == {UuidA, UuidB, HexC, HexD, HexE}
Attempted(id) == \E k \in tried \cup failed : CandId(Candidates[k]) = id
NotInSource(id) ==
  prev.status = "done" /\ \A k \in 1..Len(prev.src) : CandId(prev.src[k]) # id
OutOfScope == pc = "exit1" \/ (pc = "done" /\ limit = 0)

C29_Progress ==
  \A id \in AllIds :
    <>(OutOfScope \/ NotInSource(id) \/ Attempted(id) \/ id \in IdsOf(file.data))

====
